---- MODULE Spec2Model ----
(***************************************************************************)
(* Queue-backed meeting import pipeline of sprint-planning-copilot:        *)
(*   SubmitMeetingImportCommand.execute  (application/commands)           *)
(*   AzureMeetingImportQueue / AzureQueueWorker (infrastructure/queue)     *)
(*   ExtractMeetingUseCase.__call__      (application/use_cases)           *)
(*   Sqlite/Cosmos MeetingsRepository status writes                       *)
(* Each await of the Python code is one atomic step of the model; the      *)
(* synchronous code between two awaits belongs to the step that resumes.   *)
(***************************************************************************)
EXTENDS Integers, Sequences, FiniteSets, TLC

\* ------------------------------------------------------------------ bounds
\* total number of messages ever sent to the queue (jobs and foreign payloads)
MaxMessages == 2
\* total number of environment disruptions in one behaviour: a failing port
\* call, a killed worker process, a lease that expires while its holder is
\* still working, a stop() call
MaxDisruptions == 1
\* max_batch_size handed to AzureQueueWorker
MaxBatchSize == 2

Workers == {"w1", "w2"}
NoneVal == "<None>"
UuidPool == <<"u1", "u2", "u3", "u4">>
MeetingIds == {"m1"} \cup {UuidPool[i] : i \in 1..MaxMessages}

\* MeetingStatus values as persisted; "absent" stands for "no row"
QUEUED == "queued"
PROCESSING == "processing"
COMPLETED == "completed"
FAILED == "failed"
Absent == "absent"

VARIABLES
    config,       \* construction parameters of ExtractMeetingUseCase
    plan,         \* the payloads the producers send, in order
    status,       \* meetings.status per meeting id
    stored,       \* meeting ids for which a transcript + result is stored
    sent,         \* every payload ever handed to send_message; index = message id
    queue,        \* ids of the messages currently in the queue
    leased,       \* ids of the messages currently invisible (lease running)
    holder,       \* per message: the worker whose pop receipt is the current one
    wk,           \* per worker: position in run_forever / _process_message / __call__
    sub,          \* the submission in flight in SubmitMeetingImportCommand.execute
    uuids,        \* number of uuid4() values drawn so far
    disruptions,  \* number of environment disruptions so far
    tr,           \* the transcribe call of AzureConversationTranscriber in flight
    repo          \* the rows of the meetings repository and the store calls in flight

vars == <<config, plan, status, stored, sent, queue, leased, holder, wk, sub, uuids, disruptions, tr, repo>>

\* --------------------------------------------------------------- payloads
JobFields == {"meeting_id", "title", "started_at", "blob_url", "original_filename"}

\* MeetingImportPayload values the API hands to execute
TextPayload ==
    [title |-> "Demo", started_at |-> "2024-10-05T10:00:00Z",
     blob_url |-> "https://blob/notes.txt", meeting_id |-> "m1",
     original_filename |-> NoneVal]
AudioPayload ==
    [title |-> "Call", started_at |-> "2024-11-05T09:00:00Z",
     blob_url |-> "https://blob/upload", meeting_id |-> NoneVal,
     original_filename |-> "call.wav"]
EmptyUrlPayload ==
    [title |-> "Empty", started_at |-> "2024-11-06T09:00:00Z",
     blob_url |-> "", meeting_id |-> "m1",
     original_filename |-> "notes.txt"]
BinaryPayload ==
    [title |-> "Binary", started_at |-> "2024-11-07T09:00:00Z",
     blob_url |-> "https://blob/data.bin", meeting_id |-> "m1",
     original_filename |-> NoneVal]
SubmitPayloads == {TextPayload, AudioPayload, EmptyUrlPayload, BinaryPayload}

\* a JSON encoder that writes None as the text of its name
JsonValueStr(v) == [type |-> "string", chars |-> IF v = NoneVal THEN "None" ELSE v]

\* json.dumps of a field value: None becomes null, a str becomes a JSON string
JsonValue(v) == IF v = NoneVal THEN [type |-> "null"] ELSE [type |-> "string", chars |-> v]

\* json.loads of a JSON value: null becomes None, a JSON string becomes a str
PyValue(t) == IF t.type = "null" THEN NoneVal ELSE t.chars

\* message bodies that did not come from enqueue: not JSON at all, and a JSON
\* object whose keys are not the fields of MeetingImportJob
NotJson == [json |-> FALSE]
WrongFields == [json |-> TRUE, obj |-> [meeting_id |-> JsonValue("m1"), foo |-> JsonValue("bar")]]
ForeignPayloads == {NotJson, WrongFields}

\* python truthiness of an optional string
Falsy(x) == x \in {NoneVal, ""}

\* MeetingImportJob(**job_data): the keyword arguments must be the dataclass fields
MeetingImportJob(obj) == DOMAIN obj = JobFields

\* json.dumps(asdict(job)): one flat object, a member for every field
Serialize(job) == [json |-> TRUE, obj |-> [k \in DOMAIN job |-> JsonValue(job[k])]]

\* json.loads(message.content); MeetingImportJob(**job_data) does not raise
CanDecode(content) == content.json /\ MeetingImportJob(content.obj)

\* the decoded job: MeetingImportJob(**json.loads(message.content))
Decode(content) == [k \in DOMAIN content.obj |-> PyValue(content.obj[k])]

\* Path(blob_url).name
PathName(url) ==
    CASE url = "https://blob/notes.txt" -> "notes.txt"
      [] url = "https://blob/upload" -> "upload"
      [] url = "https://blob/data.bin" -> "data.bin"
      [] OTHER -> ""

\* suffix of a lower-cased file name
Suffix(name) ==
    CASE name = "notes.txt" -> ".txt"
      [] name = "call.wav" -> ".wav"
      [] name = "data.bin" -> ".bin"
      [] OTHER -> ""

TextExtensions == {".txt", ".json"}
AudioExtensions == {".wav", ".mp3"}

\* context.filename
Filename(job) ==
    IF ~Falsy(job.original_filename) THEN job.original_filename
    ELSE IF PathName(job.blob_url) # "" THEN PathName(job.blob_url)
    ELSE "uploaded_file"

\* _resolve_transcript: which branch the file name selects
ResolveTranscript(job, cfg) ==
    LET ext == Suffix(Filename(job)) IN
    IF ext \in TextExtensions THEN "text"
    ELSE IF cfg.transcription /\ ext \in AudioExtensions THEN "audio"
    ELSE IF ext \in AudioExtensions THEN "not_configured"
    ELSE "unsupported"

\* a __call__ that skips the guards
ValidatesAnything(job, cfg) == TRUE

\* the guards at the top of __call__
Validates(job, cfg) == job.blob_url # "" /\ cfg.blob_storage

\* ------------------------------------------------------------- repository
\* update_meeting_status: UPDATE meetings SET status = ? WHERE id = ?
UpdateMeetingStatus(st, mid, s) ==
    IF st[mid] = Absent THEN st ELSE [st EXCEPT ![mid] = s]

\* create_meeting_stub: INSERT ... ON CONFLICT(id) DO UPDATE SET status='queued'
CreateMeetingStub(st, mid) == [st EXCEPT ![mid] = QUEUED]

\* store_meeting_and_result: the row is updated or inserted with status 'completed'
StoreMeetingAndResult(st, mid) == [st EXCEPT ![mid] = COMPLETED]

\* ------------------------------------------------------------------ state
FullConfig == [blob_storage |-> TRUE, transcription |-> TRUE, telemetry |-> "mlflow"]
PortTelemetry == [blob_storage |-> TRUE, transcription |-> TRUE, telemetry |-> "port"]
NoTranscription == [blob_storage |-> TRUE, transcription |-> FALSE, telemetry |-> "none"]
NoStorage == [blob_storage |-> FALSE, transcription |-> TRUE, telemetry |-> "mlflow"]

\* the deployments and workloads explored: the configuration the use case is
\* built with, and the payloads that reach the queue, in sending order (the
\* list is walked round when more messages are sent than it names)
Scenarios ==
    { <<FullConfig, <<TextPayload, TextPayload>> >>,
      <<PortTelemetry, <<TextPayload, NotJson>> >>,
      <<FullConfig, <<AudioPayload, BinaryPayload>> >>,
      <<NoTranscription, <<WrongFields, AudioPayload>> >>,
      <<NoStorage, <<TextPayload, EmptyUrlPayload>> >>,
      <<PortTelemetry, <<EmptyUrlPayload, TextPayload>> >> }

IdleWorker ==
    [pc |-> "idle", running |-> FALSE, batch |-> <<>>, cur |-> 0,
     decoded |-> FALSE, handler |-> "notinvoked", fault |-> NoneVal,
     del |-> "none", writes |-> <<>>]

IdleSubmit == [pc |-> "idle", payload |-> NoneVal, mid |-> NoneVal, msgs |-> {}, ret |-> NoneVal]

\* no transcribe call is in flight
IdleTranscriber ==
    [pc |-> "idle", sample_rate |-> 0, silence_ms |-> 0, intros |-> <<>>, done |-> 0,
     frame_cursor |-> 0, boundaries |-> <<>>, meeting_start_tick |-> 0,
     speaker_roles |-> <<>>, recognized_segments |-> <<>>, last |-> [reason |-> NoneVal], events |-> 0,
     dir |-> [exists |-> FALSE, files |-> <<>>], frames_sequence |-> <<>>,
     done_event |-> FALSE, canceled_error |-> <<>>, timed_out |-> FALSE, error |-> NoneVal]

\* the meeting ids store_meeting_and_result is called with
StoreIds == {"m1", "m2"}

\* no call of store_meeting_and_result in flight
IdleCall ==
    [pc |-> "idle", n |-> 0, meeting_id |-> "", tasks |-> 0, existing |-> FALSE,
     items |-> {}, index |-> 0]

\* the repository before get_meetings_repository has built it: no row, no call
IdleRepo ==
    [provider |-> NoneVal,
     meetings |-> [m \in StoreIds |-> 0], tasks |-> {}, runs |-> {},
     calls |-> [w \in Workers |-> IdleCall],
     started |-> 0, results |-> <<>>,
     last_started |-> [m \in StoreIds |-> 0], last_returned |-> [m \in StoreIds |-> 0]]

Init ==
    /\ \E sc \in Scenarios : config = sc[1] /\ plan = sc[2]
    /\ status = [m \in MeetingIds |-> Absent]
    /\ stored = {}
    /\ sent = <<>>
    /\ queue = {}
    /\ leased = {}
    /\ holder = [i \in 1..MaxMessages |-> NoneVal]
    /\ wk = [w \in Workers |-> IdleWorker]
    /\ sub = IdleSubmit
    /\ uuids = 0
    /\ disruptions = 0
    /\ tr = IdleTranscriber
    /\ repo = IdleRepo

\* ------------------------------------------------- SubmitMeetingImportCommand
\* the payload of the next message according to the workload
NextPayload == plan[(Len(sent) % Len(plan)) + 1]

\* meeting_id = payload.meeting_id or str(uuid.uuid4())
SubmitMeetingId(p) == IF Falsy(p.meeting_id) THEN UuidPool[uuids + 1] ELSE p.meeting_id

\* the MeetingImportJob built by execute
SubmitJob(p, mid) ==
    [meeting_id |-> mid, title |-> p.title, started_at |-> p.started_at,
     blob_url |-> p.blob_url, original_filename |-> p.original_filename]

\* an execute that left the row in another status than QUEUED
SubmitLeavesProcessing == PROCESSING

\* the status execute writes once enqueue has returned
SubmitFinalStatus == QUEUED

\* execute up to the await: create_meeting_stub, build the job
SubmitStub(p) ==
    /\ sub.pc \in {"idle", "returned"}
    /\ Len(sent) < MaxMessages
    /\ p = NextPayload
    /\ LET mid == SubmitMeetingId(p) IN
         /\ status' = CreateMeetingStub(status, mid)
         /\ sub' = [pc |-> "enqueue", payload |-> p, mid |-> mid, msgs |-> {}, ret |-> NoneVal]
         /\ uuids' = IF Falsy(p.meeting_id) THEN uuids + 1 ELSE uuids
    /\ UNCHANGED <<repo, tr, config, plan, stored, sent, queue, leased, holder, wk, disruptions>>

\* AzureMeetingImportQueue.enqueue: send_message(json.dumps(asdict(job)))
Enqueue(job) ==
    /\ sent' = Append(sent, Serialize(job))
    /\ queue' = queue \cup {Len(sent) + 1}

\* await self._queue.enqueue(job): the message reaches the queue
SubmitEnqueue ==
    /\ sub.pc = "enqueue"
    /\ Enqueue(SubmitJob(sub.payload, sub.mid))
    /\ sub' = [sub EXCEPT !.pc = "finish", !.msgs = @ \cup {Len(sent) + 1}]
    /\ UNCHANGED <<repo, tr, config, plan, status, stored, leased, holder, wk, uuids, disruptions>>

\* execute after the await: update_meeting_status(QUEUED); return meeting_id
SubmitFinish ==
    /\ sub.pc = "finish"
    /\ status' = UpdateMeetingStatus(status, sub.mid, SubmitFinalStatus)
    /\ sub' = [sub EXCEPT !.pc = "returned", !.ret = sub.mid]
    /\ UNCHANGED <<repo, tr, config, plan, stored, sent, queue, leased, holder, wk, uuids, disruptions>>

\* another producer puts a body on the queue that is no serialized job
SendForeign(content) ==
    /\ sub.pc # "enqueue"
    /\ Len(sent) < MaxMessages
    /\ content = NextPayload
    /\ sent' = Append(sent, content)
    /\ queue' = queue \cup {Len(sent) + 1}
    /\ UNCHANGED <<repo, tr, config, plan, status, stored, leased, holder, wk, sub, uuids, disruptions>>

\* ------------------------------------------------------------ the transport
\* the messages a receive returns: the visible ones, oldest first, one page
RECURSIVE FirstVisible(_, _)
FirstVisible(ids, n) ==
    IF n = 0 \/ ids = {} THEN <<>>
    ELSE LET m == CHOOSE x \in ids : \A y \in ids : x <= y
         IN <<m>> \o FirstVisible(ids \ {m}, n - 1)

ReceiveMessages(n) == FirstVisible(queue \ leased, n)

SeqToSet(s) == {s[i] : i \in 1..Len(s)}

\* the pop receipt a worker got with the message is still the current one
ReceiptCurrent(w, m) == m \in queue /\ holder[m] = w

\* worker w is still working on a batch that holds message m
Working(w, m) ==
    /\ wk[w].pc \notin {"idle", "crashed"}
    /\ \/ m \in SeqToSet(wk[w].batch)
       \/ wk[w].cur = m /\ wk[w].pc \in {"body", "log", "delete"}

\* the visibility timeout of a message runs out
Expire(m) ==
    /\ m \in leased
    /\ LET overrun == \E w \in Workers : holder[m] = w /\ Working(w, m) IN
         /\ overrun => disruptions < MaxDisruptions
         /\ disruptions' = IF overrun THEN disruptions + 1 ELSE disruptions
    /\ leased' = leased \ {m}
    /\ UNCHANGED <<repo, tr, config, plan, status, stored, sent, queue, holder, wk, sub, uuids>>

\* --------------------------------------------------------- AzureQueueWorker
\* a failing call of a port is a disruption; at most MaxDisruptions happen
Disrupt(failed) ==
    /\ failed => disruptions < MaxDisruptions
    /\ disruptions' = IF failed THEN disruptions + 1 ELSE disruptions

\* the job the worker decoded from the message it is processing
CurJob(w) == Decode(sent[wk[w].cur])

\* a loop that looks at the flag between the messages of a batch
NextMessageChecksFlag(r) ==
    [r EXCEPT !.pc = IF r.batch = <<>> \/ ~r.running THEN "loop" ELSE "dispatch"]

\* for message in messages: the loop goes on with the rest of the batch, and
\* back to the while test when the batch is exhausted
NextMessage(r) == [r EXCEPT !.pc = IF r.batch = <<>> THEN "loop" ELSE "dispatch"]

\* run_forever is called: self._running = True
Start(w) ==
    /\ wk[w].pc = "idle"
    /\ wk' = [wk EXCEPT ![w] = [IdleWorker EXCEPT !.pc = "loop", !.running = TRUE]]
    /\ UNCHANGED <<repo, tr, config, plan, status, stored, sent, queue, leased, holder, sub, uuids, disruptions>>

\* stop(): self._running = False
Stop(w) ==
    /\ wk[w].running
    /\ wk[w].pc \notin {"idle", "crashed"}
    /\ Disrupt(TRUE)
    /\ wk' = [wk EXCEPT ![w].running = FALSE]
    /\ UNCHANGED <<repo, tr, config, plan, status, stored, sent, queue, leased, holder, sub, uuids>>

\* while self._running: the flag is down, run_forever returns
Return(w) ==
    /\ wk[w].pc = "loop"
    /\ ~wk[w].running
    /\ wk' = [wk EXCEPT ![w].pc = "idle"]
    /\ UNCHANGED <<repo, tr, config, plan, status, stored, sent, queue, leased, holder, sub, uuids, disruptions>>

\* receive_messages(messages_per_page, visibility_timeout): every message
\* returned becomes invisible and gets a new pop receipt
Receive(w) ==
    /\ wk[w].pc = "loop"
    /\ wk[w].running
    /\ LET messages == ReceiveMessages(MaxBatchSize) IN
         /\ leased' = leased \cup SeqToSet(messages)
         /\ holder' = [m \in DOMAIN holder |->
                          IF m \in SeqToSet(messages) THEN w ELSE holder[m]]
         /\ wk' = [wk EXCEPT ![w] = [IdleWorker EXCEPT
                             !.running = TRUE, !.batch = messages,
                             !.pc = IF messages = <<>> THEN "sleep" ELSE "dispatch"]]
    /\ UNCHANGED <<repo, tr, config, plan, status, stored, sent, queue, sub, uuids, disruptions>>

\* an empty receive that ends run_forever with an exception
SleepRaises(w) ==
    /\ wk[w].pc = "sleep"
    /\ wk' = [wk EXCEPT ![w].pc = "crashed", ![w].running = FALSE]
    /\ UNCHANGED <<repo, tr, config, plan, status, stored, sent, queue, leased, holder, sub, uuids, disruptions>>

\* await asyncio.sleep(self._poll_interval); continue
Sleep(w) ==
    /\ wk[w].pc = "sleep"
    /\ wk' = [wk EXCEPT ![w].pc = "loop"]
    /\ UNCHANGED <<repo, tr, config, plan, status, stored, sent, queue, leased, holder, sub, uuids, disruptions>>

\* a delete that reports success and leaves the message in the queue
DeleteMessageLeavesMessage(w, m, r) ==
    /\ UNCHANGED <<queue, leased, holder>>
    /\ wk' = [wk EXCEPT ![w] = NextMessage([r EXCEPT !.del = "deleted"])]

\* delete_message(message.id, message.pop_receipt): the transport removes the
\* message when the receipt is the current one and rejects the call otherwise;
\* the rejection is an exception nothing in run_forever catches
DeleteMessage(w, m, r) ==
    IF ReceiptCurrent(w, m)
    THEN /\ queue' = queue \ {m}
         /\ leased' = leased \ {m}
         /\ holder' = [holder EXCEPT ![m] = NoneVal]
         /\ wk' = [wk EXCEPT ![w] = NextMessage([r EXCEPT !.del = "deleted"])]
    ELSE /\ UNCHANGED <<queue, leased, holder>>
         /\ wk' = [wk EXCEPT ![w] = [r EXCEPT !.del = "rejected", !.pc = "crashed",
                                              !.running = FALSE, !.batch = <<>>]]

\* a worker that never deletes, and one that deletes whatever the handler did
DispositionNeverDelete(outcome) == "keep"
DispositionAlwaysDelete(outcome) == "delete"

\* what _process_message does once the handler has returned or raised
Disposition(outcome) == IF outcome = "returned" THEN "delete" ELSE "keep"

\* a _process_message without the except branch: the exception of the handler
\* leaves the for loop and run_forever
HandlerRaisedPropagates(w, r) ==
    wk' = [wk EXCEPT ![w] = [r EXCEPT !.handler = "raised", !.pc = "crashed",
                                      !.running = FALSE, !.batch = <<>>]]

\* the handler raised: logger.exception, the message is left alone
HandlerRaised(w, r) ==
    wk' = [wk EXCEPT ![w] =
             IF Disposition("raised") = "delete"
             THEN [r EXCEPT !.handler = "raised", !.pc = "delete"]
             ELSE NextMessage([r EXCEPT !.handler = "raised"])]

\* the handler returned: the worker goes on to delete the message
HandlerReturned(w, r) ==
    wk' = [wk EXCEPT ![w] =
             IF Disposition("returned") = "delete"
             THEN [r EXCEPT !.handler = "returned", !.pc = "delete"]
             ELSE NextMessage([r EXCEPT !.handler = "returned"])]

\* await to_thread(delete_message) after the handler returned
Delete(w) ==
    /\ wk[w].pc = "delete"
    /\ DeleteMessage(w, wk[w].cur, wk[w])
    /\ UNCHANGED <<repo, tr, config, plan, status, stored, sent, sub, uuids, disruptions>>

\* the worker process is killed between a receive and the end of the batch;
\* its in-memory batch is gone
Crash(w) ==
    /\ wk[w].pc \in {"dispatch", "body", "log", "delete"}
    /\ Disrupt(TRUE)
    /\ wk' = [wk EXCEPT ![w] = [IdleWorker EXCEPT !.pc = "crashed"]]
    /\ UNCHANGED <<repo, tr, config, plan, status, stored, sent, queue, leased, holder, sub, uuids>>

\* the worker process is started again: worker.main calls run_forever
Restart(w) ==
    /\ wk[w].pc = "crashed"
    /\ wk' = [wk EXCEPT ![w] = [IdleWorker EXCEPT !.pc = "loop", !.running = TRUE]]
    /\ UNCHANGED <<repo, tr, config, plan, status, stored, sent, queue, leased, holder, sub, uuids, disruptions>>

\* ------------------------------------------------ ExtractMeetingUseCase.__call__
\* a status write of the running execution, remembered in its own write list
WriteStatus(r, s) == [r EXCEPT !.writes = Append(@, s)]

\* except branches that re-raise without a status write
MarkFailedSilently(w, mid, r) ==
    /\ UNCHANGED status
    /\ HandlerRaised(w, r)

\* the except branches: update_meeting_status(FAILED), raise
MarkFailed(w, mid, r) ==
    /\ status' = UpdateMeetingStatus(status, mid, FAILED)
    /\ HandlerRaised(w, WriteStatus(r, FAILED))

\* the call that failed in the running execution, remembered with it
Fault(r, call) == [r EXCEPT !.fault = call]

\* _process_message with the start of the handler, up to the first write:
\* decode the payload (a payload that does not decode is deleted at once);
\* the handler runs the guards of __call__, downloads the blob (a failed
\* download and an empty blob raise) and writes PROCESSING, all of it before
\* the try block
ProcessMessage(w) ==
    /\ wk[w].pc = "dispatch"
    /\ LET m == Head(wk[w].batch)
           r == [wk[w] EXCEPT !.batch = Tail(wk[w].batch), !.cur = m, !.del = "none",
                              !.writes = <<>>, !.fault = NoneVal,
                              !.handler = "notinvoked", !.decoded = CanDecode(sent[m])]
       IN IF ~CanDecode(sent[m])
          THEN /\ DeleteMessage(w, m, r)
               /\ UNCHANGED <<status, disruptions>>
          ELSE /\ UNCHANGED <<queue, leased, holder>>
               /\ IF ~Validates(Decode(sent[m]), config)
                  THEN /\ HandlerRaised(w, Fault(r, "validate"))
                       /\ UNCHANGED <<status, disruptions>>
                  ELSE \E out \in {"ok", "raise", "empty"} :
                         /\ Disrupt(out # "ok")
                         /\ IF out = "ok"
                            THEN /\ status' = UpdateMeetingStatus(
                                        status, Decode(sent[m]).meeting_id, PROCESSING)
                                 /\ wk' = [wk EXCEPT ![w] =
                                             [WriteStatus(r, PROCESSING) EXCEPT
                                                !.handler = "running", !.pc = "body"]]
                            ELSE /\ UNCHANGED status
                                 /\ HandlerRaised(w, Fault(r, "download"))
    /\ UNCHANGED <<repo, tr, config, plan, stored, sent, sub, uuids>>

\* the try block up to _store: _persist_original_file (returns blob_url),
\* _resolve_transcript, _extract, store_meeting_and_result; the first call
\* that raises ends it in the except branch
Body(w) ==
    /\ wk[w].pc = "body"
    /\ LET branch == ResolveTranscript(CurJob(w), config)
           mid == CurJob(w).meeting_id
       IN \E out \in {"ok", "transcribe", "extract", "store"} :
            /\ out = "transcribe" => branch = "audio"
            /\ Disrupt(out # "ok")
            /\ IF branch \in {"text", "audio"} /\ out = "ok"
               THEN /\ status' = StoreMeetingAndResult(status, mid)
                    /\ stored' = stored \cup {mid}
                    /\ wk' = [wk EXCEPT ![w] =
                                [WriteStatus(wk[w], COMPLETED) EXCEPT !.pc = "log"]]
               ELSE /\ UNCHANGED stored
                    /\ MarkFailed(w, mid, Fault(wk[w], IF branch \in {"text", "audio"}
                                                       THEN out ELSE "resolve"))
    /\ UNCHANGED <<repo, tr, config, plan, sent, queue, leased, holder, sub, uuids>>

\* MLflowTelemetryAdapter.log_extraction_run: try/except Exception around the
\* MLflow call, so the adapter itself never raises
MLflowTelemetryAdapter(inner) == "ok"

\* what self._telemetry.log_extraction_run can do, seen from _log
TelemetryOutcomes(cfg) ==
    CASE cfg.telemetry = "none" -> {"ok"}
      [] cfg.telemetry = "mlflow" -> {MLflowTelemetryAdapter(o) : o \in {"ok", "raise"}}
      [] OTHER -> {"ok", "raise"}

\* a __call__ that ends in the except branch whatever _log did
AfterLogAlwaysFailed(out) == FAILED

\* what __call__ does with the outcome of _log: it sits in the try block
AfterLog(out) == IF out = "raise" THEN FAILED ELSE COMPLETED

\* await self._log(...); then the except / else branch of __call__
Log(w) ==
    /\ wk[w].pc = "log"
    /\ \E out \in TelemetryOutcomes(config) :
         /\ Disrupt(out = "raise")
         /\ LET r == Fault(wk[w], IF out = "raise" THEN "telemetry" ELSE NoneVal) IN
            IF AfterLog(out) = COMPLETED
            THEN /\ status' = UpdateMeetingStatus(status, CurJob(w).meeting_id, COMPLETED)
                 /\ HandlerReturned(w, WriteStatus(r, COMPLETED))
            ELSE MarkFailed(w, CurJob(w).meeting_id, r)
    /\ UNCHANGED <<repo, tr, config, plan, stored, sent, queue, leased, holder, sub, uuids>>

\* ---------------------------------------------------------- specification
WorkerStep(w) ==
    \/ Return(w) \/ Receive(w) \/ Sleep(w) \/ ProcessMessage(w)
    \/ Body(w) \/ Log(w) \/ Delete(w)

Next ==
    \/ \E p \in SubmitPayloads : SubmitStub(p)
    \/ SubmitEnqueue
    \/ SubmitFinish
    \/ \E c \in ForeignPayloads : SendForeign(c)
    \/ \E m \in 1..MaxMessages : Expire(m)
    \/ \E w \in Workers : Start(w)
    \/ \E w \in Workers : Stop(w)
    \/ \E w \in Workers : Return(w)
    \/ \E w \in Workers : Receive(w)
    \/ \E w \in Workers : Sleep(w)
    \/ \E w \in Workers : ProcessMessage(w)
    \/ \E w \in Workers : Body(w)
    \/ \E w \in Workers : Log(w)
    \/ \E w \in Workers : Delete(w)
    \/ \E w \in Workers : Crash(w)
    \/ \E w \in Workers : Restart(w)

Spec == Init /\ [][Next]_vars

\* ------------------------------------------------------------------ claims
\* _process_message is over for the message the worker took last
Settled(w) == wk[w].cur # 0 /\ wk[w].pc \in {"loop", "dispatch", "crashed"}

\* the handler is running for the message the worker took last
InHandler(w) == wk[w].cur # 0 /\ wk[w].pc \in {"body", "log"}

\* the worker asked the transport to delete the message it took last
DeleteRequested(w) == wk[w].del # "none"

\* C1 as stated: whenever a worker is done with a received message, the
\* message has been deleted from the queue if and only if the handler invoked
\* for it returned without raising.
C1_DeletedIffHandlerReturned ==
    \A w \in Workers :
        Settled(w) => (wk[w].del = "deleted" <=> wk[w].handler = "returned")

\* C1 amended: whenever a worker is done with a received message, it has called
\* delete_message for it if and only if the payload did not decode (the handler
\* was never invoked) or the handler returned without raising; a delete the
\* transport accepted has removed the message, and a worker only reaches the
\* delete after a handler that returned.
C1_DeleteIffReturnedOrUndecodable ==
    \A w \in Workers :
        /\ Settled(w) =>
              /\ DeleteRequested(w) <=>
                    (sent[wk[w].cur] \in ForeignPayloads \/ wk[w].handler = "returned")
              /\ sent[wk[w].cur] \in ForeignPayloads => wk[w].handler = "notinvoked"
              /\ wk[w].del = "deleted" => wk[w].cur \notin queue
        /\ wk[w].pc = "delete" => wk[w].handler = "returned"

C1_Witness ==
    \E w \in Workers :
        Settled(w) /\ wk[w].handler = "returned" /\ wk[w].del = "deleted"

\* C2 as stated: no meeting's persisted status moves from COMPLETED or FAILED
\* back to PROCESSING.
C2_NoReturnToProcessing ==
    [][\A m \in MeetingIds :
          status[m] \in {COMPLETED, FAILED} => status'[m] # PROCESSING]_vars

\* C3: when the handler raised for a well-formed message, the worker does not
\* call delete_message for it and does not go on to the delete; as long as the
\* worker's receipt is the current one the message is still in the queue, and
\* once its lease is over a receive returns it again.
C3_RaisedKeepsMessage ==
    \A w \in Workers :
        (wk[w].cur # 0 /\ wk[w].handler = "raised") =>
            /\ sent[wk[w].cur] \in {Serialize(SubmitJob(q, i)) : q \in SubmitPayloads, i \in MeetingIds}
            /\ ~DeleteRequested(w)
            /\ wk[w].pc # "delete"
            /\ holder[wk[w].cur] = w =>
                  /\ wk[w].cur \in queue
                  /\ wk[w].cur \notin leased =>
                        wk[w].cur \in SeqToSet(ReceiveMessages(MaxMessages))

\* a message whose handler raised at one worker is handled again by another
C3_Witness ==
    \E w \in Workers, v \in Workers :
        /\ w # v
        /\ wk[w].handler = "raised" /\ Settled(w)
        /\ wk[v].cur = wk[w].cur /\ InHandler(v)

C5_FailedBeforeReraise ==
    \A w \in Workers :
        (wk[w].cur # 0 /\ wk[w].handler = "raised" /\ wk[w].fault # "validate") =>
            (wk[w].writes # <<>> /\ wk[w].writes[Len(wk[w].writes)] = FAILED)

\* C6 as stated: when download, resolution, extraction and persistence
\* succeeded, the execution returns and its last status is COMPLETED, whatever
\* log_extraction_run did.
C6_TelemetryNeverFailsJob ==
    \A w \in Workers :
        (wk[w].cur # 0 /\ wk[w].fault \in {NoneVal, "telemetry"}
           /\ wk[w].handler # "notinvoked" /\ ~InHandler(w)) =>
            /\ wk[w].handler = "returned"
            /\ wk[w].writes[Len(wk[w].writes)] = COMPLETED

\* C8 as stated: a worker runs the handler for a message only while the lease
\* it got with the message is running and its receipt is the current one (so
\* no two workers run the handler for one message at a time).
C8_LeaseMutualExclusion ==
    \A w \in Workers :
        InHandler(w) => (wk[w].cur \in leased /\ holder[wk[w].cur] = w)

\* C9: the step in which execute returns leaves the meeting's row with status
\* QUEUED; exactly one message has been sent by the call and it decodes to the
\* job with the meeting id and the title, started_at, blob_url and
\* original_filename of the payload; the id returned is the payload's
\* meeting_id when one was supplied.
C9_SubmitReturns ==
    [][(sub.pc = "finish" /\ sub'.pc = "returned") =>
          /\ status'[sub'.mid] = QUEUED
          /\ Cardinality(sub'.msgs) = 1
          /\ \A m \in sub'.msgs :
                /\ CanDecode(sent'[m])
                /\ Decode(sent'[m]) =
                      [meeting_id |-> sub'.ret, title |-> sub'.payload.title,
                       started_at |-> sub'.payload.started_at,
                       blob_url |-> sub'.payload.blob_url,
                       original_filename |-> sub'.payload.original_filename]
          /\ ~Falsy(sub'.payload.meeting_id) => sub'.ret = sub'.payload.meeting_id
          /\ sub'.ret \in MeetingIds]_vars

C9_Witness ==
    /\ sub.pc = "returned" /\ sub.ret = "m1" /\ status["m1"] = QUEUED
    /\ \E m \in sub.msgs : m \in queue

\* C10: an execution in which no call failed returns; the statuses it wrote
\* start with PROCESSING, contain no FAILED and end with COMPLETED, and the
\* step in which it returns leaves the meeting's row COMPLETED.
C10_SuccessEndsCompleted ==
    /\ [](\A w \in Workers :
            (wk[w].cur # 0 /\ CanDecode(sent[wk[w].cur]) /\ ~InHandler(w)
               /\ wk[w].fault = NoneVal) =>
                /\ wk[w].handler = "returned"
                /\ Len(wk[w].writes) >= 2
                /\ wk[w].writes[1] = PROCESSING
                /\ wk[w].writes[Len(wk[w].writes)] = COMPLETED
                /\ \A i \in 1..Len(wk[w].writes) : wk[w].writes[i] # FAILED)
    /\ [][\A w \in Workers :
            (wk[w].handler # "returned" /\ wk'[w].handler = "returned") =>
                status'[CurJob(w).meeting_id] = COMPLETED]_vars

C10_Witness ==
    \E w \in Workers :
        /\ wk[w].handler = "returned" /\ wk[w].pc = "delete"
        /\ status[CurJob(w).meeting_id] = COMPLETED
        /\ wk[w].writes = <<PROCESSING, COMPLETED, COMPLETED>>

\* a job the use case can complete under the configuration: the guards pass
\* and the file name selects a transcript source
CanSucceed(job) ==
    Validates(job, config) /\ ResolveTranscript(job, config) \in {"text", "audio"}

\* the visibility timeout of a message runs out, however often that has
\* happened under a working holder: nothing in the worker renews a lease or
\* bounds the time a batch takes
LeaseRunsOut(m) ==
    /\ m \in leased
    /\ leased' = leased \ {m}
    /\ UNCHANGED <<repo, tr, config, plan, status, stored, sent, queue, holder, wk, sub, uuids, disruptions>>

LeaseNext == Next \/ \E m \in 1..MaxMessages : LeaseRunsOut(m)

\* scheduling: a started worker keeps taking the steps of run_forever, a worker
\* process that is down is started again, and time passes, so that a lease
\* runs out; port failures, kills and stop() calls stop after MaxDisruptions
\* of them
LeaseSpec ==
    /\ Init /\ [][LeaseNext]_vars
    /\ \A w \in Workers : WF_vars(WorkerStep(w))
    /\ \A w \in Workers : WF_vars(Start(w) \/ Restart(w))
    /\ \A m \in 1..MaxMessages : WF_vars(LeaseRunsOut(m))

\* C7 as stated: a kill of a worker leaves the queue as it is (the message it
\* held is not lost), and under fair scheduling every well-formed job in the
\* queue that the use case can complete is eventually deleted from the queue.
C7_CrashRecovery ==
    /\ [][\A w \in Workers :
            (wk[w].pc # "crashed" /\ wk'[w].pc = "crashed" /\ wk'[w].del = "none")
                => queue' = queue]_vars
    /\ \A m \in 1..MaxMessages :
          (m \in queue /\ CanDecode(sent[m]) /\ CanSucceed(Decode(sent[m])))
              ~> (m \notin queue)

\* the job of the message the worker took last fails with an unsupported file
\* type under the configuration
FormatFailed(w) ==
    /\ wk[w].cur # 0 /\ wk[w].handler = "raised" /\ wk[w].fault = "resolve"
    /\ ResolveTranscript(CurJob(w), config) = "unsupported"

\* C11 as stated: once an execution of a job has failed with an unsupported
\* file type, no worker starts the handler again for the message of that job.
C11_FormatErrorNotRetried ==
    [][\A w \in Workers, v \in Workers :
          FormatFailed(w) =>
             ~(/\ wk[v].pc = "dispatch"
               /\ wk'[v].cur = wk[w].cur
               /\ wk'[v].handler # "notinvoked")]_vars

\* the job does not pass the guards of __call__: no blob_url, or no storage
Unacceptable(job) == job.blob_url = "" \/ ~config.blob_storage

\* C12: an execution for a job with an empty blob_url, or without a blob
\* storage, raises and has written no status; the step in which it runs
\* changes no status and stores no meeting.
C12_GuardsTouchNoRepository ==
    /\ [](\A w \in Workers :
            (wk[w].cur # 0 /\ CanDecode(sent[wk[w].cur]) /\ Unacceptable(CurJob(w))) =>
                /\ wk[w].handler = "raised"
                /\ wk[w].writes = <<>>
                /\ wk[w].pc \notin {"body", "log", "delete"}
                /\ ~DeleteRequested(w))
    /\ [][\A w \in Workers :
            (/\ wk[w].pc = "dispatch"
             /\ CanDecode(sent[Head(wk[w].batch)])
             /\ Unacceptable(Decode(sent[Head(wk[w].batch)]))
             /\ wk'[w].cur = Head(wk[w].batch) /\ wk'[w].batch = Tail(wk[w].batch))
                => (status' = status /\ stored' = stored)]_vars

\* both guards have fired: a job without blob_url, and a job under a
\* configuration without blob storage
C12_Witness ==
    \E w \in Workers :
        /\ wk[w].cur # 0 /\ CanDecode(sent[wk[w].cur]) /\ wk[w].handler = "raised"
        /\ wk[w].writes = <<>>
        /\ \/ CurJob(w).blob_url = "" /\ config.blob_storage
           \/ CurJob(w).blob_url # "" /\ ~config.blob_storage

\* stop() has been called on a worker that has not left run_forever
Stopping(w) == ~wk[w].running /\ wk[w].pc \notin {"idle", "crashed"}

\* C13: stop() changes nothing but the flag; a worker on which stop() was
\* called can take the next step of the batch it holds, leaves run_forever only
\* at the while test with the batch exhausted, and a message it handled after
\* the call has the usual disposition: delete_message was called when the
\* handler returned, and the message was left in the queue when it raised.
C13_StopIsCooperative ==
    /\ [][\A w \in Workers :
            (wk[w].running /\ ~wk'[w].running /\ wk'[w].pc # "crashed") =>
                wk'[w] = [wk[w] EXCEPT !.running = FALSE]]_vars
    /\ [][\A w \in Workers :
            (wk[w].pc \notin {"idle", "crashed"} /\ wk'[w].pc = "idle") =>
                (wk[w].pc = "loop" /\ wk[w].batch = <<>> /\ wk'[w].cur = wk[w].cur
                 /\ wk'[w].handler = wk[w].handler /\ wk'[w].del = wk[w].del)]_vars
    /\ [](\A w \in Workers :
            Stopping(w) =>
                /\ wk[w].pc \in {"dispatch", "body", "log", "delete"} => ENABLED WorkerStep(w)
                /\ (Settled(w) /\ CanDecode(sent[wk[w].cur])) =>
                      /\ wk[w].handler = "returned" => wk[w].del = "deleted"
                      /\ wk[w].handler = "raised" =>
                            /\ ~DeleteRequested(w)
                            /\ holder[wk[w].cur] = w => wk[w].cur \in queue)

\* stop() has been called on a worker whose handler is in flight, with another
\* message of the batch still to come
C13_Witness ==
    \E w \in Workers :
        Stopping(w) /\ wk[w].pc = "log" /\ wk[w].batch # <<>>

\* C14: a receive that finds no visible message takes the worker to the sleep
\* and changes neither the queue, the leases nor any status; a sleeping worker
\* has no message, has invoked no handler and asked for no delete, it can
\* always wake up, the wake-up takes it back to the while test and changes
\* nothing else, and at the while test a running worker can receive again.
C14_EmptyReceiveSleepsAndRepolls ==
    /\ [][\A w \in Workers :
            (wk[w].pc = "loop" /\ wk'[w].pc # "loop" /\ wk[w].running
             /\ queue \ leased = {}) =>
                /\ wk'[w].pc = "sleep"
                /\ queue' = queue /\ leased' = leased /\ holder' = holder
                /\ status' = status /\ stored' = stored]_vars
    /\ [][\A w \in Workers :
            (wk[w].pc = "sleep" /\ wk'[w].pc # "sleep") =>
                /\ wk'[w] = [wk[w] EXCEPT !.pc = "loop"]
                /\ queue' = queue /\ leased' = leased /\ holder' = holder
                /\ status' = status /\ stored' = stored]_vars
    /\ [](\A w \in Workers :
            /\ wk[w].pc = "sleep" =>
                  /\ wk[w].batch = <<>> /\ wk[w].cur = 0
                  /\ wk[w].handler = "notinvoked" /\ ~DeleteRequested(w)
                  /\ ENABLED Sleep(w)
            /\ (wk[w].pc = "loop" /\ wk[w].running) => ENABLED Receive(w))

\* a running worker sleeps after a receive that returned nothing, while the
\* only messages in the queue are leased to the other worker
C14_Witness ==
    \E w \in Workers :
        /\ wk[w].pc = "sleep" /\ wk[w].running
        /\ queue # {} /\ queue \ leased = {}

\* the jobs execute can build from the payloads
AllJobs == {SubmitJob(p, i) : p \in SubmitPayloads, i \in MeetingIds}

\* C15: the body enqueue writes is the flat JSON object of the job's fields
\* (a member per field, null for None) and decodes to the job; this holds for
\* every job execute can build, for the message of every enqueue step, and the
\* job a worker decoded re-serializes to the body it received.
C15_MessageRoundTrip ==
    /\ \A J \in AllJobs :
          /\ CanDecode(Serialize(J)) /\ Decode(Serialize(J)) = J
          /\ DOMAIN Serialize(J).obj = JobFields
          /\ \A k \in JobFields : Serialize(J).obj[k] = JsonValue(J[k])
    /\ [][(sub.pc = "enqueue" /\ sub'.pc = "finish") =>
            LET J == SubmitJob(sub.payload, sub.mid)
                body == sent'[Len(sent')]
            IN /\ Len(sent') = Len(sent) + 1
               /\ body.json /\ DOMAIN body.obj = JobFields
               /\ \A k \in JobFields : body.obj[k] = JsonValue(J[k])
               /\ CanDecode(body) /\ Decode(body) = J
               /\ J \in AllJobs]_vars
    /\ [](\A w \in Workers :
            (wk[w].cur # 0 /\ wk[w].decoded) =>
                /\ CurJob(w) \in AllJobs
                /\ Serialize(CurJob(w)) = sent[wk[w].cur])

\* a worker has decoded a job whose original_filename is None
C15_Witness ==
    \E w \in Workers :
        /\ wk[w].cur # 0 /\ wk[w].decoded
        /\ CurJob(w).original_filename = NoneVal
        /\ sent[wk[w].cur].obj["original_filename"] = [type |-> "null"]

\* ------------------------------------------------- python float arithmetic
\* A positive double is a record [m, e]: m the significant bits, most
\* significant first, e the binary exponent of the last of them; zero has no
\* bits. Ints in the program are below 2^31 and are doubles exactly.
MantissaBits == 53

RECURSIVE Pow2(_)
Pow2(k) == IF k = 0 THEN 1 ELSE 2 * Pow2(k - 1)

\* the value of a short bit string
RECURSIVE ValBits(_)
ValBits(bits) ==
    IF bits = <<>> THEN 0
    ELSE 2 * ValBits(SubSeq(bits, 1, Len(bits) - 1)) + bits[Len(bits)]

\* the bits of a positive int
RECURSIVE BitsOf(_)
BitsOf(n) == IF n = 0 THEN <<>> ELSE Append(BitsOf(n \div 2), n % 2)

\* bits + 1
RECURSIVE IncBits(_)
IncBits(bits) ==
    IF bits = <<>> THEN <<1>>
    ELSE IF bits[Len(bits)] = 0 THEN [bits EXCEPT ![Len(bits)] = 1]
    ELSE Append(IncBits(SubSeq(bits, 1, Len(bits) - 1)), 0)

\* round to nearest, ties to even, to MantissaBits significant bits
Round53(x) ==
    IF Len(x.m) <= MantissaBits THEN x
    ELSE LET keep == SubSeq(x.m, 1, MantissaBits)
             rest == SubSeq(x.m, MantissaBits + 1, Len(x.m))
             sticky == \E i \in 2..Len(rest) : rest[i] = 1
             up == rest[1] = 1 /\ (sticky \/ keep[MantissaBits] = 1)
         IN [m |-> IF up THEN IncBits(keep) ELSE keep, e |-> x.e + Len(rest)]

\* k quotient bits of n / d for d <= n < 2d, and a last bit that says
\* whether a remainder is left
RECURSIVE DivBits(_, _, _)
DivBits(n, d, k) ==
    IF k = 0 THEN <<IF n = 0 THEN 0 ELSE 1>>
    ELSE IF n >= d THEN <<1>> \o DivBits(2 * (n - d), d, k - 1)
    ELSE <<0>> \o DivBits(2 * n, d, k - 1)

\* the exponent E with 2^E <= n / d < 2^(E + 1)
RECURSIVE Log2Ratio(_, _)
Log2Ratio(n, d) ==
    IF n < d THEN Log2Ratio(2 * n, d) - 1
    ELSE IF n >= 2 * d THEN Log2Ratio(n, 2 * d) + 1
    ELSE 0

\* n / d for ints n >= 0, d > 0: the correctly rounded quotient
FloatDiv(n, d) ==
    IF n = 0 THEN [m |-> <<>>, e |-> 0]
    ELSE LET E == Log2Ratio(n, d)
             num == IF E < 0 THEN n * Pow2(-E) ELSE n
             den == IF E > 0 THEN d * Pow2(E) ELSE d
         IN Round53([m |-> DivBits(num, den, MantissaBits + 1), e |-> E - MantissaBits - 1])

\* bits * c, for an int c
RECURSIVE MulBitsCarry(_, _, _)
MulBitsCarry(bits, c, carry) ==
    IF bits = <<>> THEN BitsOf(carry)
    ELSE LET t == bits[Len(bits)] * c + carry
         IN IF t % 2 = 0
            THEN Append(MulBitsCarry(SubSeq(bits, 1, Len(bits) - 1), c, t \div 2), 0)
            ELSE Append(MulBitsCarry(SubSeq(bits, 1, Len(bits) - 1), c, t \div 2), 1)

\* x * c for a double x and an int c that is a double exactly
FloatMul(x, c) ==
    IF x.m = <<>> THEN x ELSE Round53([m |-> MulBitsCarry(x.m, c, 0), e |-> x.e])

\* int(x): truncation
FloatInt(x) ==
    IF x.m = <<>> THEN 0
    ELSE IF x.e >= 0 THEN ValBits(x.m) * Pow2(x.e)
    ELSE IF Len(x.m) + x.e <= 0 THEN 0
    ELSE ValBits(SubSeq(x.m, 1, Len(x.m) + x.e))

\* ------------------------------------------------------- audio.normalizer
TicksPerSecond == 10000000

\* a conversion whose result wraps around at 24 bits
TicksWrapped(frame_index, sample_rate) ==
    FloatInt(FloatMul(FloatDiv(frame_index, sample_rate), TicksPerSecond)) % 16777216

\* frames_to_ticks: seconds = frame_index / sample_rate; int(seconds * 10_000_000)
frames_to_ticks(frame_index, sample_rate) ==
    FloatInt(FloatMul(FloatDiv(frame_index, sample_rate), TicksPerSecond))

\* ------------------------------------------- AzureConversationTranscriber
MaxIntros == 2
MaxEvents == 2

queueVars == <<config, plan, status, stored, sent, queue, leased, holder, wk, sub, uuids, disruptions, repo>>

\* sample rates, values of self._intro_silence_ms and frame counts of intro
\* files; 32000 and 48000 frames are 2 s and 3 s at 16000 Hz
SampleRates == {16000, 44100}
SilenceMs == {0, 300}
IntroFrames == {0, 43, 32000, 48000}

\* the intro files the glob finds, in sorted(...) order
IntroStems == <<"intro_", "intro_alice", "intro_bob">>

\* path.stem.split("_", 1)[-1].upper()
RoleOfStem(stem) ==
    CASE stem = "intro_alice" -> "ALICE"
      [] stem = "intro_bob" -> "BOB"
      [] OTHER -> ""

\* the sample rate each intro file was recorded at
NativeRate(stem) == IF stem = "intro_alice" THEN 8000 ELSE 16000

\* self._intro_dir does not exist
NoDir == [exists |-> FALSE, files |-> <<>>]

\* the intro directories: none, or one with at most MaxIntros files that match
\* the pattern, listed in sorted(...) order; num_frames is the length of the
\* file once resampled to the rate of the meeting
IntroDirs ==
    LET Dirs == {d \in SUBSET (1..Len(IntroStems)) : Cardinality(d) <= MaxIntros}
        Stem(d, i) == IntroStems[CHOOSE x \in d : Cardinality({y \in d : y < x}) = i - 1]
    IN {NoDir} \cup UNION {
         {[exists |-> TRUE,
           files |-> [i \in 1..Cardinality(d) |->
                        [stem |-> Stem(d, i), sample_rate |-> NativeRate(Stem(d, i)),
                         num_frames |-> nf[i]]]] :
             nf \in [1..Cardinality(d) -> IntroFrames]} : d \in Dirs}

\* the meeting audio after convert_to_standard_wav: self._channels channels of
\* pcm_s16le samples
Channels == 1
SampleWidth == 2

\* convert_to_standard_wav followed by wav_payload: ffmpeg resamples the file
\* to the rate and the channels asked for, in 16-bit samples
ConvertedPayload(file, sample_rate, channels) ==
    [num_frames |-> file.num_frames, sample_rate |-> sample_rate,
     sample_width |-> SampleWidth, channels |-> channels]

\* the format test of _load_intro_chunks on a decoded intro sample
Incompatible(payload, sample_rate, sample_width, channels) ==
    <<payload.sample_rate, payload.sample_width, payload.channels>>
        # <<sample_rate, sample_width, channels>>

\* _load_intro_chunks: no chunk when the directory does not exist; otherwise
\* one chunk per file, unless a decoded sample has another format than the
\* meeting, which raises ValueError naming the file
LoadIntroChunks(dir, sample_rate, sample_width, channels) ==
    LET payload(i) == ConvertedPayload(dir.files[i], sample_rate, channels)
        bad == {i \in 1..Len(dir.files) :
                  Incompatible(payload(i), sample_rate, sample_width, channels)}
    IN IF ~dir.exists THEN [raised |-> FALSE, name |-> "", chunks |-> <<>>]
       ELSE IF bad # {}
       THEN [raised |-> TRUE,
             name |-> dir.files[CHOOSE i \in bad : \A j \in bad : i <= j].stem,
             chunks |-> <<>>]
       ELSE [raised |-> FALSE, name |-> "",
             chunks |-> [i \in 1..Len(dir.files) |->
                           [role |-> RoleOfStem(dir.files[i].stem),
                            num_frames |-> payload(i).num_frames]]]

\* an alignment that appends no silence after an intro
SilenceFramesNone(sample_rate, ms) == 0

\* silence_frames = int(sample_rate * self._intro_silence_ms / 1000)
SilenceFrames(sample_rate, ms) == FloatInt(FloatDiv(sample_rate * ms, 1000))

\* transcribe is called; _prepend_reference_intros loads the intros and, when
\* there is none, returns the meeting frames alone, no boundary and
\* meeting_start_tick = 0; a ValueError of the load leaves transcribe
Transcribe(sample_rate, ms, dir) ==
    /\ tr.pc = "idle"
    /\ LET loaded == LoadIntroChunks(dir, sample_rate, SampleWidth, Channels)
           called == [IdleTranscriber EXCEPT
                        !.sample_rate = sample_rate, !.silence_ms = ms, !.dir = dir]
       IN tr' = IF loaded.raised
                THEN [called EXCEPT
                        !.pc = "raised",
                        !.error = "Intro sample " \o loaded.name
                                     \o " has incompatible audio format"]
                ELSE IF loaded.chunks = <<>>
                THEN [called EXCEPT !.pc = "events",
                                    !.frames_sequence = <<[kind |-> "meeting"]>>]
                ELSE [called EXCEPT !.pc = "intros", !.intros = loaded.chunks]
    /\ UNCHANGED queueVars

\* one turn of the loop over the intros: the boundary of the intro, then the
\* silence gap when there is one
AppendIntro ==
    /\ tr.pc = "intros"
    /\ tr.done < Len(tr.intros)
    /\ LET intro == tr.intros[tr.done + 1]
           start_tick == frames_to_ticks(tr.frame_cursor, tr.sample_rate)
           cursor == tr.frame_cursor + intro.num_frames
           end_tick == frames_to_ticks(cursor, tr.sample_rate)
           silence_frames == SilenceFrames(tr.sample_rate, tr.silence_ms)
       IN tr' = [tr EXCEPT
                   !.done = @ + 1,
                   !.boundaries = Append(@, [role |-> intro.role, start |-> start_tick,
                                             end |-> end_tick]),
                   !.frame_cursor = IF silence_frames > 0 THEN cursor + silence_frames
                                    ELSE cursor,
                   !.frames_sequence =
                       IF silence_frames > 0
                       THEN @ \o <<[kind |-> "intro", role |-> intro.role],
                                   [kind |-> "silence"]>>
                       ELSE Append(@, [kind |-> "intro", role |-> intro.role])]
    /\ UNCHANGED queueVars

\* after the loop: meeting_start_tick, and the boundaries are returned
PrependReturn ==
    /\ tr.pc = "intros"
    /\ tr.done = Len(tr.intros)
    /\ tr' = [tr EXCEPT !.pc = "events",
                        !.meeting_start_tick = frames_to_ticks(tr.frame_cursor, tr.sample_rate),
                        !.frames_sequence = Append(@, [kind |-> "meeting"])]
    /\ UNCHANGED queueVars

SpeakerIds == {"Guest-1", "Guest-2"}

\* a handler that lets the latest boundary win
SetLatest(roles, speaker_id, role) ==
    [s \in DOMAIN roles \cup {speaker_id} |-> IF s = speaker_id THEN role ELSE roles[s]]

\* speaker_roles.setdefault(speaker_id, role)
SetDefault(roles, speaker_id, role) ==
    IF speaker_id \in DOMAIN roles THEN roles
    ELSE [s \in DOMAIN roles \cup {speaker_id} |-> IF s = speaker_id THEN role ELSE roles[s]]

\* a boundary test with both ends included
InBoundaryClosed(boundary, offset_ticks) ==
    boundary.start <= offset_ticks /\ offset_ticks <= boundary.end

\* boundary["start"] <= offset_ticks < boundary["end"]
InBoundary(boundary, offset_ticks) ==
    boundary.start <= offset_ticks /\ offset_ticks < boundary.end

\* _role_for_offset: the role of the first boundary that holds the offset
RoleForOffset(boundaries, offset_ticks) ==
    LET hits == {i \in 1..Len(boundaries) : InBoundary(boundaries[i], offset_ticks)}
    IN IF hits = {} THEN NoneVal
       ELSE boundaries[CHOOSE i \in hits : \A j \in hits : i <= j].role

\* _label_for_speaker
LabelForSpeaker(roles, speaker_id) ==
    IF speaker_id = NoneVal THEN "Speaker"
    ELSE IF speaker_id \in DOMAIN roles THEN roles[speaker_id]
    ELSE "Speaker " \o speaker_id

\* the offsets the service reports: the start and the end of every boundary,
\* the last tick before the end, the start of the meeting and the tick after
EventOffsets ==
    LET starts == {tr.boundaries[i].start : i \in 1..Len(tr.boundaries)}
        ends == {tr.boundaries[i].end : i \in 1..Len(tr.boundaries)}
    IN starts \cup ends \cup {t - 1 : t \in ends \ {0}}
          \cup {tr.meeting_start_tick, tr.meeting_start_tick + 1}

\* the transcribed events of the service: the result reason, whether the text
\* is empty once stripped, the offset and the speaker id (None when absent)
Events ==
    [reason : {"RecognizedSpeech"}, text : {"", "hello"},
     offset : EventOffsets, speaker_id : SpeakerIds \cup {NoneVal}]
    \cup [reason : {"NoMatch"}, text : {""}, offset : {0}, speaker_id : {NoneVal}]

\* a handler that lets every segment through, wherever the meeting starts
BeforeMeetingNever(offset_ticks, meeting_start_tick) == FALSE

\* a handler that takes every segment for intro material
BeforeMeetingAlways(offset_ticks, meeting_start_tick) == TRUE

\* offset_ticks < meeting_start_tick
BeforeMeeting(offset_ticks, meeting_start_tick) == offset_ticks < meeting_start_tick

\* the handlers are connected and the session runs: transcribe is in
\* done.wait(timeout=60), or past it in stop_transcribing_async().get()
Listening == tr.pc \in {"events", "stopping"}

\* _recognized_handler
Recognized(evt) ==
    /\ Listening
    /\ tr.events < MaxEvents
    /\ LET role == RoleForOffset(tr.boundaries, evt.offset)
           heard == evt.reason = "RecognizedSpeech" /\ evt.text # ""
           maps == heard /\ ~Falsy(role) /\ evt.speaker_id # NoneVal
           emits == heard /\ ~maps /\ ~BeforeMeeting(evt.offset, tr.meeting_start_tick)
       IN tr' = [tr EXCEPT
                   !.events = @ + 1,
                   !.last = evt,
                   !.speaker_roles = IF maps THEN SetDefault(@, evt.speaker_id, role) ELSE @,
                   !.recognized_segments =
                       IF emits THEN Append(@, LabelForSpeaker(tr.speaker_roles, evt.speaker_id))
                       ELSE @]
    /\ UNCHANGED queueVars

\* the cancellations of the service: the end of the stream, or an error with
\* or without details
CancelEvents ==
    [reason : {"EndOfStream"}, error_details : {""}]
    \cup [reason : {"Error"}, error_details : {"", "Quota exceeded"}]

\* the message _canceled_handler builds
CanceledMessage(details) ==
    LET message == "Conversation transcription canceled: " \o details.reason
    IN IF details.error_details # "" THEN message \o ". " \o details.error_details
       ELSE message

\* _canceled_handler
Canceled(details) ==
    /\ Listening
    /\ tr.events < MaxEvents
    /\ tr' = [tr EXCEPT
                !.events = @ + 1,
                !.last = details,
                !.canceled_error = IF details.reason = "EndOfStream" THEN @
                                   ELSE Append(@, CanceledMessage(details)),
                !.done_event = TRUE]
    /\ UNCHANGED queueVars

\* _stopped_handler
SessionStopped ==
    /\ Listening
    /\ tr.events < MaxEvents
    /\ tr' = [tr EXCEPT !.events = @ + 1, !.last = [reason |-> "SessionStopped"],
                        !.done_event = TRUE]
    /\ UNCHANGED queueVars

\* done.wait(timeout=60) returns, at once when the event is set and after the
\* timeout otherwise; its result is not looked at
WaitReturns ==
    /\ tr.pc = "events"
    /\ tr' = [tr EXCEPT !.pc = "stopping", !.timed_out = ~tr.done_event]
    /\ UNCHANGED queueVars

\* a session that takes no notice of a cancellation
SessionErrorOfSegments(canceled_error, recognized_segments) ==
    IF recognized_segments = <<>> THEN "No speech could be recognized." ELSE NoneVal

\* the tests after the session: the RuntimeError transcribe raises, None when
\* it returns
SessionError(canceled_error, recognized_segments) ==
    IF canceled_error # <<>> THEN canceled_error[1]
    ELSE IF recognized_segments = <<>> THEN "No speech could be recognized."
    ELSE NoneVal

\* the session is stopped and the handlers are disconnected: transcribe raises
\* or returns the joined segments
TranscribeReturn ==
    /\ tr.pc = "stopping"
    /\ LET error == SessionError(tr.canceled_error, tr.recognized_segments)
       IN tr' = [tr EXCEPT !.pc = IF error = NoneVal THEN "returned" ELSE "raised",
                           !.error = error]
    /\ UNCHANGED queueVars

AlignInit ==
    Init /\ config = FullConfig /\ plan = <<TextPayload, TextPayload>>

AlignNext ==
    \/ \E sample_rate \in SampleRates, ms \in SilenceMs, dir \in IntroDirs :
          Transcribe(sample_rate, ms, dir)
    \/ AppendIntro
    \/ PrependReturn
    \/ \E evt \in Events : Recognized(evt)
    \/ \E details \in CancelEvents : Canceled(details)
    \/ SessionStopped
    \/ WaitReturns
    \/ TranscribeReturn

AlignSpec == AlignInit /\ [][AlignNext]_vars

\* _prepend_reference_intros has returned
Aligned ==
    \/ tr.pc \in {"events", "stopping", "returned"}
    \/ tr.pc = "raised" /\ tr.frames_sequence # <<>>

\* C16: the boundaries are listed in the order of the intros, one per intro
\* handled so far, each with start <= end; a boundary ends at or before the
\* start of every later one (half-open intervals that do not overlap, starts
\* non-decreasing), and once _prepend_reference_intros has returned every
\* boundary ends at or before meeting_start_tick.
C16_BoundariesOrderedDisjoint ==
    /\ Len(tr.boundaries) = tr.done
    /\ \A i \in 1..Len(tr.boundaries) :
          /\ tr.boundaries[i].role = tr.intros[i].role
          /\ tr.boundaries[i].start <= tr.boundaries[i].end
          /\ \A j \in 1..Len(tr.boundaries) :
                i < j => /\ tr.boundaries[i].end <= tr.boundaries[j].start
                         /\ tr.boundaries[i].start <= tr.boundaries[j].start
                         /\ \A t \in {tr.boundaries[j].start, tr.boundaries[i].end - 1} :
                               ~(InBoundary(tr.boundaries[i], t) /\ InBoundary(tr.boundaries[j], t))
          /\ Aligned => tr.boundaries[i].end <= tr.meeting_start_tick
    /\ Aligned => tr.done = Len(tr.intros)

\* two intros without a silence gap: the second boundary starts at the tick
\* at which the first ends, and the meeting starts where the second ends
C16_Witness ==
    /\ Aligned /\ Len(tr.boundaries) = 2 /\ tr.silence_ms = 0
    /\ tr.boundaries[1].start < tr.boundaries[1].end
    /\ tr.boundaries[1].end = tr.boundaries[2].start
    /\ tr.boundaries[2].start < tr.boundaries[2].end
    /\ tr.boundaries[2].end = tr.meeting_start_tick

\* _prepend_reference_intros has just returned: no event has come in yet
JustAligned == tr.pc = "events" /\ tr.events = 0

\* the frames of the first k intros
RECURSIVE SumFrames(_, _)
SumFrames(intros, k) == IF k = 0 THEN 0 ELSE SumFrames(intros, k - 1) + intros[k].num_frames

\* the frames of a silence gap of ms milliseconds
GapFrames(sample_rate, ms) == (sample_rate * ms) \div 1000

\* C17: the boundaries, the cursor and meeting_start_tick do not change after
\* _prepend_reference_intros has returned, and on return boundary i starts at
\* ticks(n1 + .. + n(i-1) + (i-1) g) and ends at ticks(that frame + ni), the
\* cursor stands at n1 + .. + nk + k g (a gap after every intro, the last one
\* included) and meeting_start_tick is its tick; 2 s and 3 s intros with a gap
\* of 0.3 s at 16000 Hz give [0, 20000000), [23000000, 53000000) and 56000000,
\* the ticks of the frames 32000, 36800, 84800 and 89600.
C17_CursorArithmetic ==
    /\ [][Aligned => /\ tr'.boundaries = tr.boundaries
                     /\ tr'.meeting_start_tick = tr.meeting_start_tick
                     /\ tr'.frame_cursor = tr.frame_cursor]_vars
    /\ [](JustAligned =>
        LET g == GapFrames(tr.sample_rate, tr.silence_ms)
            k == Len(tr.intros)
            first(i) == SumFrames(tr.intros, i - 1) + (i - 1) * g
        IN /\ Len(tr.boundaries) = k
           /\ \A i \in 1..k :
                 /\ tr.boundaries[i].start = frames_to_ticks(first(i), tr.sample_rate)
                 /\ tr.boundaries[i].end =
                       frames_to_ticks(first(i) + tr.intros[i].num_frames, tr.sample_rate)
           /\ tr.frame_cursor = SumFrames(tr.intros, k) + k * g
           /\ tr.meeting_start_tick = frames_to_ticks(tr.frame_cursor, tr.sample_rate)
           /\ (/\ tr.sample_rate = 16000 /\ tr.silence_ms = 300 /\ k = 2
               /\ tr.intros[1].num_frames = 32000 /\ tr.intros[2].num_frames = 48000) =>
                 /\ g = 4800
                 /\ <<tr.boundaries[1].start, tr.boundaries[1].end>> = <<0, 20000000>>
                 /\ <<tr.boundaries[2].start, tr.boundaries[2].end>> = <<23000000, 53000000>>
                 /\ tr.boundaries[1].end = frames_to_ticks(32000, 16000)
                 /\ tr.boundaries[2].start = frames_to_ticks(36800, 16000)
                 /\ tr.boundaries[2].end = frames_to_ticks(84800, 16000)
                 /\ tr.meeting_start_tick = 56000000
                 /\ tr.meeting_start_tick = frames_to_ticks(89600, 16000))

\* the alignment of the 2 s and the 3 s intro with a gap of 0.3 s has returned
C17_Witness ==
    /\ Aligned /\ tr.sample_rate = 16000 /\ tr.silence_ms = 300
    /\ Len(tr.intros) = 2
    /\ tr.intros[1].num_frames = 32000 /\ tr.intros[2].num_frames = 48000
    /\ tr.meeting_start_tick = 56000000

\* round(x) of python for a double x: to the nearest int, ties to even
FloatRound(x) ==
    IF x.m = <<>> THEN 0
    ELSE IF x.e >= 0 THEN ValBits(x.m) * Pow2(x.e)
    ELSE IF Len(x.m) + x.e < 0 THEN 0
    ELSE LET k == Len(x.m) + x.e
             whole == ValBits(SubSeq(x.m, 1, k))
             frac == SubSeq(x.m, k + 1, Len(x.m))
             more == \E i \in 2..Len(frac) : frac[i] = 1
         IN IF frac[1] = 1 /\ (more \/ whole % 2 = 1) THEN whole + 1 ELSE whole

\* round(frame_index / sample_rate * 10_000_000)
RoundedTicks(frame_index, sample_rate) ==
    FloatRound(FloatMul(FloatDiv(frame_index, sample_rate), TicksPerSecond))

\* C18 as stated: every tick the alignment computes is the rounded value
\* round(frame_index / sample_rate * 10_000_000) of its frame index.
C18_TicksAreRounded ==
    JustAligned =>
        LET g == GapFrames(tr.sample_rate, tr.silence_ms)
            first(i) == SumFrames(tr.intros, i - 1) + (i - 1) * g
        IN /\ \A i \in 1..Len(tr.boundaries) :
                 /\ tr.boundaries[i].start = RoundedTicks(first(i), tr.sample_rate)
                 /\ tr.boundaries[i].end =
                       RoundedTicks(first(i) + tr.intros[i].num_frames, tr.sample_rate)
           /\ tr.meeting_start_tick = RoundedTicks(tr.frame_cursor, tr.sample_rate)

\* a step of _recognized_handler for a segment: recognized speech whose text is
\* not empty once stripped
SegmentStep ==
    /\ Listening
    /\ tr'.events = tr.events + 1
    /\ tr'.last.reason = "RecognizedSpeech"
    /\ tr'.last.text # ""

\* C19 as stated: a segment (with a speaker id) whose offset is the start tick
\* of a boundary gets its speaker id mapped to the role of that boundary and is
\* discarded, and a segment whose offset is the end tick of a boundary is not
\* attributed to that boundary.
C19_StartInsideEndOutside ==
    [][(SegmentStep /\ tr'.last.speaker_id # NoneVal) =>
          \A i \in 1..Len(tr.boundaries) :
             LET evt == tr'.last
                 b == tr.boundaries[i]
             IN /\ evt.offset = b.start =>
                      /\ evt.speaker_id \in DOMAIN tr'.speaker_roles
                      /\ tr'.speaker_roles[evt.speaker_id] = b.role
                      /\ tr'.recognized_segments = tr.recognized_segments
                /\ evt.offset = b.end => ~InBoundary(b, evt.offset)]_vars

\* C19: for a boundary that is not empty (start < end), a segment whose offset
\* is the start tick is discarded, and when it has a speaker id and the role of
\* the boundary is not the empty string the speaker id is in the map afterwards,
\* with the role of the boundary unless it was mapped before (otherwise the map
\* is left alone); a segment whose offset is the end tick of a boundary changes
\* the map only through another boundary that starts at or before that tick and
\* ends after it.
C19_HalfOpenBoundary ==
    [][SegmentStep =>
          \A i \in 1..Len(tr.boundaries) :
             LET evt == tr'.last
                 b == tr.boundaries[i]
                 id == evt.speaker_id
             IN /\ (evt.offset = b.start /\ b.start < b.end) =>
                      /\ tr'.recognized_segments = tr.recognized_segments
                      /\ IF id # NoneVal /\ b.role # ""
                         THEN /\ id \in DOMAIN tr'.speaker_roles
                              /\ tr'.speaker_roles[id] =
                                    IF id \in DOMAIN tr.speaker_roles
                                    THEN tr.speaker_roles[id] ELSE b.role
                         ELSE tr'.speaker_roles = tr.speaker_roles
                /\ (evt.offset = b.end /\ tr'.speaker_roles # tr.speaker_roles) =>
                      \E j \in 1..Len(tr.boundaries) :
                         /\ j # i
                         /\ tr.boundaries[j].start <= evt.offset
                         /\ evt.offset < tr.boundaries[j].end
                         /\ tr'.speaker_roles[id] = tr.boundaries[j].role]_vars

\* the last segment came at the tick where the first boundary ends and the
\* second one starts, and its speaker has the role of the second
C19_Witness ==
    /\ tr.pc = "events"
    /\ Len(tr.boundaries) = 2
    /\ tr.events > 0
    /\ tr.last.reason = "RecognizedSpeech" /\ tr.last.text # ""
    /\ tr.boundaries[1].start < tr.boundaries[1].end
    /\ tr.boundaries[2].start < tr.boundaries[2].end
    /\ tr.last.offset = tr.boundaries[1].end
    /\ tr.last.offset = tr.boundaries[2].start
    /\ tr.boundaries[1].role # ""
    /\ tr.last.speaker_id \in DOMAIN tr.speaker_roles
    /\ tr.speaker_roles[tr.last.speaker_id] = tr.boundaries[2].role
    /\ tr.recognized_segments = <<>>

\* C20: within one transcribe call a speaker id that is in the map keeps its
\* role on every later step, whatever segment arrives: a segment of the same
\* speaker inside another boundary leaves the map as it was, and a speaker id
\* enters the map only with the role of the boundary that holds its segment.
C20_FirstBoundaryWins ==
    [][/\ \A s \in DOMAIN tr.speaker_roles :
             /\ s \in DOMAIN tr'.speaker_roles
             /\ tr'.speaker_roles[s] = tr.speaker_roles[s]
       /\ \A s \in DOMAIN tr'.speaker_roles \ DOMAIN tr.speaker_roles :
             /\ SegmentStep
             /\ s = tr'.last.speaker_id
             /\ \E i \in 1..Len(tr.boundaries) :
                   /\ tr.boundaries[i].start <= tr'.last.offset
                   /\ tr'.last.offset < tr.boundaries[i].end
                   /\ tr'.speaker_roles[s] = tr.boundaries[i].role]_vars

\* the last segment lies inside a boundary with a role, and its speaker has
\* the role of another boundary, from an earlier segment
C20_Witness ==
    /\ tr.pc = "events"
    /\ tr.events > 1
    /\ tr.last.reason = "RecognizedSpeech" /\ tr.last.text # ""
    /\ tr.last.speaker_id \in DOMAIN tr.speaker_roles
    /\ \E i \in 1..Len(tr.boundaries) :
          /\ tr.boundaries[i].start <= tr.last.offset
          /\ tr.last.offset < tr.boundaries[i].end
          /\ tr.boundaries[i].role # ""
          /\ tr.speaker_roles[tr.last.speaker_id] # tr.boundaries[i].role
    /\ tr.recognized_segments = <<>>

\* the tick lies inside one of the boundaries
InsideSomeBoundary(boundaries, offset_ticks) ==
    \E i \in 1..Len(boundaries) :
        boundaries[i].start <= offset_ticks /\ offset_ticks < boundaries[i].end

\* C21: on every step of the handler, a segment (recognized speech with text)
\* whose offset lies inside a boundary or below meeting_start_tick leaves the
\* emitted lines as they were, with or without a speaker id and whatever the
\* role of the boundary; every other segment appends exactly one line, the one
\* labelled for its speaker; an event that is no segment appends nothing, and
\* no other step touches the emitted lines.
C21_NoIntroMaterialEmitted ==
    [][IF SegmentStep
       THEN LET evt == tr'.last
            IN IF \/ InsideSomeBoundary(tr.boundaries, evt.offset)
                  \/ evt.offset < tr.meeting_start_tick
               THEN tr'.recognized_segments = tr.recognized_segments
               ELSE tr'.recognized_segments =
                       Append(tr.recognized_segments,
                              LabelForSpeaker(tr.speaker_roles, evt.speaker_id))
       ELSE tr.pc # "idle" => tr'.recognized_segments = tr.recognized_segments]_vars

\* the last segment came without a speaker id inside a boundary that has a
\* role, after a segment at the start of the meeting was emitted
C21_Witness ==
    /\ tr.pc = "events"
    /\ tr.events > 1
    /\ tr.last.reason = "RecognizedSpeech" /\ tr.last.text # ""
    /\ tr.last.speaker_id = NoneVal
    /\ \E i \in 1..Len(tr.boundaries) :
          /\ tr.boundaries[i].start <= tr.last.offset
          /\ tr.last.offset < tr.boundaries[i].end
          /\ tr.boundaries[i].role # ""
    /\ Len(tr.recognized_segments) = 1

\* transcribe has raised or returned
Left == tr.pc \in {"raised", "returned"}

\* C22 as stated: a call of transcribe whose wait ran into the timeout, no
\* cancellation and no session-stopped signal having come before, fails: it
\* raises and returns no transcript, segments recognized or not.
C22_TimeoutFails ==
    (Left /\ tr.timed_out) => (tr.pc = "raised" /\ tr.error # NoneVal)

\* a step of _canceled_handler
CanceledStep ==
    /\ Listening
    /\ tr'.events = tr.events + 1
    /\ tr'.last.reason \in {"EndOfStream", "Error"}

\* C23: a cancellation with reason EndOfStream sets the event the wait is on
\* and records no error, so the wait does not time out and, no error having
\* been recorded, transcribe returns whenever a segment was emitted; a
\* cancellation with another reason records the message with the reason and,
\* when there are any, the error details, and once an error is recorded
\* transcribe raises the first recorded message, however many segments were
\* emitted.
C23_CancellationOutcome ==
    /\ [][CanceledStep =>
             LET details == tr'.last
                 text == "Conversation transcription canceled: Error"
             IN /\ tr'.done_event
                /\ details.reason = "EndOfStream" => tr'.canceled_error = tr.canceled_error
                /\ details.reason = "Error" =>
                      tr'.canceled_error =
                         Append(tr.canceled_error,
                                IF details.error_details = "" THEN text
                                ELSE text \o ". " \o details.error_details)]_vars
    /\ [][(tr.pc = "events" /\ tr'.pc = "stopping" /\ tr.done_event) => ~tr'.timed_out]_vars
    /\ [][\A i \in 1..Len(tr.canceled_error) :
             /\ Len(tr'.canceled_error) >= i
             /\ tr'.canceled_error[i] = tr.canceled_error[i]]_vars
    /\ [](Left =>
             IF tr.canceled_error # <<>>
             THEN tr.pc = "raised" /\ tr.error = tr.canceled_error[1]
             ELSE tr.recognized_segments # <<>> => tr.pc = "returned" /\ tr.error = NoneVal)

\* transcribe raised the message of an error cancellation with details although
\* a segment had been emitted
C23_Witness ==
    /\ tr.pc = "raised"
    /\ tr.recognized_segments # <<>>
    /\ tr.error = "Conversation transcription canceled: Error. Quota exceeded"

\* ------------------------------------------------ store_meeting_and_result
MaxStoreCalls == 3
MaxTasks == 1

Providers == {"sqlite", "cosmos"}

storeVars ==
    <<config, plan, status, stored, sent, queue, leased, holder, wk, sub, uuids, disruptions, tr>>

\* get_meetings_repository builds the repository of the configured provider
GetMeetingsRepository(provider) ==
    /\ repo.provider = NoneVal
    /\ repo' = [repo EXCEPT !.provider = provider]
    /\ UNCHANGED storeVars

\* the rows call n writes for a result with k tasks: every row gets a fresh
\* uuid4 as its id
TaskRows(n, mid, k) ==
    {[id |-> [call |-> n, index |-> i], meeting_id |-> mid] : i \in 1..k}

RunRow(n, mid) == [id |-> [call |-> n, index |-> 0], meeting_id |-> mid]

\* the rows of a table that belong to the meeting
RowsOf(rows, mid) == {r \in rows : r.meeting_id = mid}

\* store_meeting_and_result is called by a worker process with a meeting id and
\* a result of k tasks
StoreCall(w, mid, k) ==
    /\ repo.provider # NoneVal
    /\ repo.calls[w].pc = "idle"
    /\ repo.started < MaxStoreCalls
    /\ repo' = [repo EXCEPT
                  !.started = @ + 1,
                  !.results = Append(@, [meeting_id |-> mid, tasks |-> k]),
                  !.last_started[mid] = repo.started + 1,
                  !.calls[w] = [IdleCall EXCEPT
                                  !.pc = IF repo.provider = "sqlite" THEN "select"
                                         ELSE "upsert_meeting",
                                  !.n = repo.started + 1,
                                  !.meeting_id = mid,
                                  !.tasks = k]]
    /\ UNCHANGED storeVars

\* the call returns (meeting_id, run_id)
StoreReturned(r, w) ==
    [r EXCEPT !.last_returned[r.calls[w].meeting_id] = r.calls[w].n,
              !.calls[w] = IdleCall]

\* the call raises
StoreRaised(r, w) == [r EXCEPT !.calls[w] = IdleCall]

\* sqlite: SELECT 1 FROM meetings WHERE id = ?, outside any transaction
SqliteSelect(w) ==
    /\ repo.calls[w].pc = "select"
    /\ repo' = [repo EXCEPT
                  !.calls[w].existing = repo.meetings[repo.calls[w].meeting_id] > 0,
                  !.calls[w].pc = "write"]
    /\ UNCHANGED storeVars

\* sqlite: the transaction from the first UPDATE or INSERT to conn.commit();
\* an INSERT of an id that is there violates the primary key, and the
\* transaction is rolled back when the connection is closed
SqliteWrite(w) ==
    /\ repo.calls[w].pc = "write"
    /\ LET c == repo.calls[w]
           mid == c.meeting_id
       IN repo' =
            IF ~c.existing /\ repo.meetings[mid] > 0 THEN StoreRaised(repo, w)
            ELSE StoreReturned(
                   [repo EXCEPT
                      !.meetings[mid] = IF c.existing THEN @ ELSE @ + 1,
                      !.tasks = (@ \ RowsOf(@, mid)) \cup TaskRows(c.n, mid, c.tasks),
                      !.runs = (@ \ RowsOf(@, mid)) \cup {RunRow(c.n, mid)}], w)
    /\ UNCHANGED storeVars

\* cosmos: self._meetings.upsert_item(meeting_doc)
CosmosUpsertMeeting(w) ==
    /\ repo.calls[w].pc = "upsert_meeting"
    /\ repo' = [repo EXCEPT !.meetings[repo.calls[w].meeting_id] = 1,
                            !.calls[w].pc = "query_tasks"]
    /\ UNCHANGED storeVars

\* where the call goes on once a delete loop has no item left
AfterDelete(pc) == IF pc \in {"query_tasks", "delete_tasks"} THEN "query_runs" ELSE "upsert_run"

\* cosmos: the query of _delete_tasks_for_meeting and _delete_runs_for_meeting
CosmosQuery(w) ==
    /\ repo.calls[w].pc \in {"query_tasks", "query_runs"}
    /\ LET c == repo.calls[w]
           table == IF c.pc = "query_tasks" THEN repo.tasks ELSE repo.runs
           items == {r.id : r \in RowsOf(table, c.meeting_id)}
       IN repo' = [repo EXCEPT
                     !.calls[w].items = items,
                     !.calls[w].pc = IF items = {} THEN AfterDelete(c.pc)
                                     ELSE IF c.pc = "query_tasks" THEN "delete_tasks"
                                     ELSE "delete_runs"]
    /\ UNCHANGED storeVars

\* cosmos: one delete_item of the loop; deleting an item that is gone raises
\* CosmosResourceNotFoundError
CosmosDeleteItem(w, item) ==
    /\ repo.calls[w].pc \in {"delete_tasks", "delete_runs"}
    /\ item \in repo.calls[w].items
    /\ LET c == repo.calls[w]
           table == IF c.pc = "delete_tasks" THEN repo.tasks ELSE repo.runs
           row == [id |-> item, meeting_id |-> c.meeting_id]
           left == c.items \ {item}
           deleted == [repo EXCEPT
                         !.calls[w].items = left,
                         !.calls[w].pc = IF left = {} THEN AfterDelete(c.pc) ELSE c.pc]
       IN repo' = IF row \notin table THEN StoreRaised(repo, w)
                  ELSE IF c.pc = "delete_tasks"
                  THEN [deleted EXCEPT !.tasks = @ \ {row}]
                  ELSE [deleted EXCEPT !.runs = @ \ {row}]
    /\ UNCHANGED storeVars

\* cosmos: self._runs.upsert_item(...)
CosmosUpsertRun(w) ==
    /\ repo.calls[w].pc = "upsert_run"
    /\ LET c == repo.calls[w]
           written == [repo EXCEPT !.runs = @ \cup {RunRow(c.n, c.meeting_id)},
                                   !.calls[w].pc = "upsert_tasks"]
       IN repo' = IF c.tasks = 0 THEN StoreReturned(written, w) ELSE written
    /\ UNCHANGED storeVars

\* cosmos: self._tasks.upsert_item(task_doc) for the next task of the result
CosmosUpsertTask(w) ==
    /\ repo.calls[w].pc = "upsert_tasks"
    /\ LET c == repo.calls[w]
           i == c.index + 1
           written == [repo EXCEPT
                         !.tasks = @ \cup {[id |-> [call |-> c.n, index |-> i],
                                            meeting_id |-> c.meeting_id]},
                         !.calls[w].index = i]
       IN repo' = IF i = c.tasks THEN StoreReturned(written, w) ELSE written
    /\ UNCHANGED storeVars

StoreInit == Init /\ config = FullConfig /\ plan = <<TextPayload, TextPayload>>

StoreNext ==
    \/ \E provider \in Providers : GetMeetingsRepository(provider)
    \/ \E w \in Workers, mid \in StoreIds, k \in 0..MaxTasks : StoreCall(w, mid, k)
    \/ \E w \in Workers :
          \/ SqliteSelect(w)
          \/ SqliteWrite(w)
          \/ CosmosUpsertMeeting(w)
          \/ CosmosQuery(w)
          \/ \E item \in repo.calls[w].items : CosmosDeleteItem(w, item)
          \/ CosmosUpsertRun(w)
          \/ CosmosUpsertTask(w)

StoreSpec == StoreInit /\ [][StoreNext]_vars

\* no call of store_meeting_and_result is in flight
StoreQuiet == \A w \in Workers : repo.calls[w].pc = "idle"

\* the rows stored for the meeting are those of call n and no others
StoredByCall(mid, n) ==
    /\ n # 0
    /\ RowsOf(repo.tasks, mid) = TaskRows(n, mid, repo.results[n].tasks)
    /\ RowsOf(repo.runs, mid) = {RunRow(n, mid)}

\* C24 as stated: whenever no call is in flight, a meeting id for which a call
\* has returned has exactly one meeting row, and its tasks and extraction runs
\* are exactly those of the last call for that id (the one that started last or
\* the one that returned last).
C24_StoreIdempotent ==
    StoreQuiet =>
        \A mid \in StoreIds :
            repo.last_returned[mid] # 0 =>
                /\ repo.meetings[mid] = 1
                /\ \/ StoredByCall(mid, repo.last_returned[mid])
                   \/ StoredByCall(mid, repo.last_started[mid])

\* an intro file of the directory was recorded at another rate than the rate
\* of the meeting audio
ForeignIntro ==
    \E i \in 1..Len(tr.dir.files) : tr.dir.files[i].sample_rate # tr.sample_rate

\* C25 as stated: a transcribe call whose intro directory holds a sample with
\* another format than the meeting audio raises, and produces no combined
\* audio, no boundary and no meeting_start_tick.
C25_IncompatibleIntroRaises ==
    (tr.pc # "idle" /\ ForeignIntro) =>
        /\ tr.pc = "raised"
        /\ tr.error # NoneVal
        /\ tr.frames_sequence = <<>>
        /\ tr.boundaries = <<>>
        /\ tr.meeting_start_tick = 0

\* the call found no intro sample: the directory does not exist, or no file
\* of it matches the pattern
NoIntroSample == tr.pc # "idle" /\ (~tr.dir.exists \/ tr.dir.files = <<>>)

\* C26: a transcribe call that finds no intro sample is aligned at once, with
\* the meeting frames as the only chunk of the audio, no boundary and
\* meeting_start_tick = 0, and every segment of such a call (recognized speech
\* with text, at any offset, with or without speaker id) appends its line:
\* the resolver discards none and maps no speaker.
C26_AlignmentOptional ==
    /\ [](NoIntroSample =>
             /\ Aligned
             /\ tr.intros = <<>>
             /\ tr.frames_sequence = <<[kind |-> "meeting"]>>
             /\ tr.boundaries = <<>>
             /\ tr.meeting_start_tick = 0
             /\ tr.speaker_roles = <<>>)
    /\ [][(NoIntroSample /\ SegmentStep) =>
             Len(tr'.recognized_segments) = Len(tr.recognized_segments) + 1]_vars

\* without an intro directory two segments came, the second after the first
\* tick, and both were emitted
C26_Witness ==
    /\ tr.pc # "idle"
    /\ ~tr.dir.exists
    /\ tr.events = 2
    /\ tr.last.reason = "RecognizedSpeech" /\ tr.last.text # ""
    /\ tr.last.offset > 0
    /\ Len(tr.recognized_segments) = 2

\* C27 as stated: when the row of the meeting carries a status a worker wrote
\* (PROCESSING, COMPLETED or FAILED) at the moment execute makes its final
\* status write, the write leaves that status in place.
C27_SubmitKeepsWorkerStatus ==
    [][(sub.pc = "finish" /\ sub'.pc = "returned"
          /\ status[sub.mid] \in {PROCESSING, COMPLETED, FAILED}) =>
             status'[sub.mid] = status[sub.mid]]_vars

\* the statuses the execution wrote through update_meeting_status: its write
\* list without the COMPLETED that store_meeting_and_result put into the row,
\* which on the path through _store comes right after PROCESSING
OwnWrites(r) ==
    IF Len(r.writes) >= 2 /\ r.writes[2] = COMPLETED
    THEN <<r.writes[1]>> \o SubSeq(r.writes, 3, Len(r.writes))
    ELSE r.writes

\* C28: an execution of __call__ that wrote PROCESSING has written, through
\* update_meeting_status, nothing more while it runs, exactly COMPLETED once it
\* has returned and exactly FAILED once it has raised; after it has ended its
\* write list stays as it is until the worker turns to its next receive or
\* message, where the list starts anew.
C28_OneTerminalWrite ==
    /\ [](\A w \in Workers :
            (wk[w].cur # 0 /\ wk[w].writes # <<>>) =>
                /\ wk[w].writes[1] = PROCESSING
                /\ wk[w].handler \in {"running", "returned", "raised"}
                /\ wk[w].handler = "running" => OwnWrites(wk[w]) = <<PROCESSING>>
                /\ wk[w].handler = "returned" => OwnWrites(wk[w]) = <<PROCESSING, COMPLETED>>
                /\ wk[w].handler = "raised" => OwnWrites(wk[w]) = <<PROCESSING, FAILED>>)
    /\ [][\A w \in Workers :
            (wk[w].handler \in {"returned", "raised"} /\ wk'[w].writes # wk[w].writes) =>
                wk'[w].writes \in {<<>>, <<PROCESSING>>}]_vars

\* an execution raised in _extract after it had written PROCESSING, and wrote
\* FAILED and nothing else
C28_Witness ==
    \E w \in Workers :
        /\ wk[w].cur # 0 /\ wk[w].handler = "raised" /\ wk[w].fault = "extract"
        /\ wk[w].writes = <<PROCESSING, FAILED>>

\* the worker has left run_forever through the while test
Returned(w) == wk[w].pc = "idle"

\* the worker process was killed, which is no end of run_forever at all
Killed(w) == wk[w].pc = "crashed" /\ wk[w].del # "rejected"

\* C29 as stated: from the call of stop() on, the worker issues no receive (it
\* neither goes to the sleep of an empty receive nor becomes the holder of a
\* message), it leaves the loop only at the while test with the batch it held
\* exhausted, and under fair scheduling of the steps of run_forever, with
\* every handler invocation terminating, run_forever eventually returns, unless
\* the process is killed first.
C29_StopReturns ==
    /\ [][\A w \in Workers :
            Stopping(w) =>
                /\ wk'[w].pc = "sleep" => wk[w].pc = "sleep"
                /\ \A m \in 1..MaxMessages : holder'[m] = w => holder[m] = w
                /\ Returned(w)' => (wk[w].pc = "loop" /\ wk[w].batch = <<>>)]_vars
    /\ \A w \in Workers : Stopping(w) ~> (Returned(w) \/ Killed(w))

\* the messages of a batch in the order receive_messages returned them, the
\* message in hand first
InReceiveOrder(r) ==
    /\ \A i \in 1..Len(r.batch) : r.cur < r.batch[i]
    /\ \A i, j \in 1..Len(r.batch) : i < j => r.batch[i] < r.batch[j]

\* C30: the step in which a handler raises leaves the worker in run_forever,
\* at the next message of the batch or at the while test, with the flag, the
\* rest of the batch, the queue and the leases as they were and no delete
\* asked for; a worker at the for loop takes the first message of the rest of
\* its batch and invokes the handler for it when it decodes; the outcome of a
\* handler stays as it is while the worker has the message in hand (no second
\* invocation); the batch is held in receive order; and every well-formed
\* message the worker is done with has its own disposition: a delete was
\* asked for if and only if its handler returned.
C30_HandlerExceptionIsolated ==
    /\ [][\A w \in Workers :
            LET r == wk[w]
                r2 == wk'[w]
            IN /\ (r.handler # "raised" /\ r2.handler = "raised") =>
                     /\ r2.pc = IF r2.batch = <<>> THEN "loop" ELSE "dispatch"
                     /\ r2.running = r.running
                     /\ r2.batch = IF r.pc = "dispatch" THEN Tail(r.batch) ELSE r.batch
                     /\ r2.del = "none"
                     /\ queue' = queue /\ leased' = leased /\ holder' = holder
               /\ (r.pc = "dispatch" /\ r2.running = r.running /\ r2 # r /\ r2.pc # "crashed") =>
                     /\ r2.cur = Head(r.batch)
                     /\ r2.batch = Tail(r.batch)
                     /\ CanDecode(sent[r2.cur]) => r2.handler \in {"running", "raised"}
               /\ (r.handler \in {"returned", "raised"} /\ r2.cur = r.cur /\ r2.pc # "crashed") =>
                     r2.handler = r.handler]_vars
    /\ [](\A w \in Workers :
            /\ InReceiveOrder(wk[w])
            /\ (Settled(w) /\ wk[w].pc # "crashed" /\ CanDecode(sent[wk[w].cur])) =>
                  /\ wk[w].handler \in {"returned", "raised"}
                  /\ DeleteRequested(w) <=> wk[w].handler = "returned")

\* a handler raised for a message of a batch that holds another message, and
\* the worker is at the for loop with that message next
C30_Witness ==
    \E w \in Workers :
        /\ wk[w].pc = "dispatch" /\ wk[w].cur # 0 /\ wk[w].batch # <<>>
        /\ wk[w].handler = "raised" /\ wk[w].del = "none"
        /\ wk[w].cur \in queue
====
